---- MODULE Spec2Model ----
(***************************************************************************)
(* The schema, the row level security policies and the two triggers of     *)
(* the print shop (src/unnamed/part_000), as a state machine over the      *)
(* tables auth.users, profiles, merchants and print_orders and over the    *)
(* objects of the storage bucket print-files; `orders` is the order list   *)
(* that each open merchant dashboard (src/src/components/Header.tsx) holds. *)
(*                                                                         *)
(* Every request is one statement in its own transaction, issued by an     *)
(* authenticated identity `actor` (auth.uid()).  A request that is denied  *)
(* or that violates a constraint changes no table.  `last` records the     *)
(* request that was made last and how it ended.                            *)
(***************************************************************************)
EXTENDS Integers, FiniteSets, Sequences, TLC

VARIABLES users, profiles, merchants, print_orders, objects, clock, orders, last

vars == <<users, profiles, merchants, print_orders, objects, clock, orders, last>>

-----------------------------------------------------------------------------
(* Bounds of the model *)

MaxClock == 1

(* Input values *)

UserIds == {"u1", "u2", "u3"}
Emails == {"a@x.edu", "b@x.edu"}
Names == {"Ann"}
NULL == "NULL"

MerchantIds == {"m1", "m2"}
OrderIds == {"o1"}

\* the open merchant dashboards
Sessions == {"s1", "s2"}

-----------------------------------------------------------------------------
(* Types and SQL helpers *)

app_role == {"user", "merchant"}

\* role texts a sign-up or a writer may supply: the two labels and two others
RoleInputs == app_role \cup {"admin", ""}

StatusValues == {"pending", "printing", "completed", "cancelled"}

StatusInputs == StatusValues \cup {"shipped"}

CopiesInputs == {0, 1}

COALESCE(a, b) == IF a = NULL THEN b ELSE a

\* text::app_role : NULL stays NULL, a label is itself, anything else raises
CastOk(text) == text = NULL \/ text \in app_role

\* a column list (a function from some column names to values) laid over a row
Apply(row, patch) ==
    [c \in DOMAIN row |-> IF c \in DOMAIN patch THEN patch[c] ELSE row[c]]

Ids(table) == {r.id : r \in table}

Row(table, id) == CHOOSE r \in table : r.id = id

-----------------------------------------------------------------------------
(* Row level security policies: profiles *)

profiles_select(actor, row) == actor = row.id

profiles_update(actor, row) == actor = row.id

\* the insert policy without its WITH CHECK
profiles_insert_unchecked(actor, row) == TRUE

profiles_insert(actor, row) == actor = row.id

\* row level security is enabled and no policy names DELETE: default deny
profiles_delete(actor, row) == FALSE

-----------------------------------------------------------------------------
(* Row level security policies: merchants *)

\* the select policy without its USING
merchants_select_all(actor, row) == TRUE

merchants_select(actor, row) == row.is_active = TRUE

\* the update policy without its USING
merchants_update_any(actor, row) == TRUE

merchants_update(actor, row) == actor = row.user_id

merchants_insert(actor, row) == actor = row.user_id

-----------------------------------------------------------------------------
(* Row level security policies: print_orders.  The sub-select of a policy  *)
(* runs as the requesting identity, so it sees the rows of merchants that  *)
(* the SELECT policy of merchants lets that identity see.                  *)

VisibleMerchants(actor) == {m \in merchants : merchants_select(actor, m)}

orders_own(actor, row) == actor = row.user_id

orders_sent(actor, row) ==
    \E m \in VisibleMerchants(actor) :
        m.id = row.merchant_id /\ m.user_id = actor

\* permissive policies of one command are OR-ed
orders_select(actor, row) == orders_own(actor, row) \/ orders_sent(actor, row)

orders_update(actor, row) == orders_own(actor, row) \/ orders_sent(actor, row)

\* the insert policy without its WITH CHECK
orders_insert_unchecked(actor, row) == TRUE

orders_insert(actor, row) == actor = row.user_id

-----------------------------------------------------------------------------
(* Constraints *)

\* profiles without its primary key
profiles_constraints_no_key(row, others, parents) ==
    /\ row.id \in Ids(parents)
    /\ row.email # NULL
    /\ row.role \in app_role

\* profiles: PRIMARY KEY (id), id REFERENCES auth.users, role app_role
profiles_constraints(row, others, parents) ==
    /\ row.id \notin Ids(others)
    /\ row.id \in Ids(parents)
    /\ row.email # NULL
    /\ row.role \in app_role

\* merchants without UNIQUE (user_id)
merchants_constraints_no_unique(row, others) ==
    /\ row.id \notin Ids(others)
    /\ row.user_id \in Ids(profiles)

\* merchants: UNIQUE (user_id), user_id REFERENCES profiles
merchants_constraints(row, others) ==
    /\ row.id \notin Ids(others)
    /\ row.user_id \notin {m.user_id : m \in others}
    /\ row.user_id \in Ids(profiles)

\* print_orders without the CHECK on status
orders_constraints_no_check(row, others) ==
    /\ row.id \notin Ids(others)
    /\ row.user_id \in Ids(profiles)
    /\ row.merchant_id \in Ids(merchants)
    /\ row.file_url # NULL
    /\ row.copies \in Int

\* print_orders: the CHECK on status, the two foreign keys, file_url and
\* copies NOT NULL
orders_constraints(row, others) ==
    /\ row.id \notin Ids(others)
    /\ row.status \in StatusValues
    /\ row.user_id \in Ids(profiles)
    /\ row.merchant_id \in Ids(merchants)
    /\ row.file_url # NULL
    /\ row.copies \in Int

-----------------------------------------------------------------------------
(* Triggers *)

\* handle_new_user taking the column default instead of the supplied role
handle_new_user_default_role(NEWROW) ==
    [raised |-> ~CastOk(NEWROW.raw_user_meta_data.role),
     row |-> [id |-> NEWROW.id,
              email |-> NEWROW.email,
              full_name |-> COALESCE(NEWROW.raw_user_meta_data.full_name, ""),
              role |-> "user"]]

\* handle_new_user falling back to 'user' on a text that is no label
handle_new_user_lenient(NEWROW) ==
    [raised |-> FALSE,
     row |-> [id |-> NEWROW.id,
              email |-> NEWROW.email,
              full_name |-> COALESCE(NEWROW.raw_user_meta_data.full_name, ""),
              role |-> IF NEWROW.raw_user_meta_data.role \in app_role
                       THEN NEWROW.raw_user_meta_data.role ELSE "user"]]

\* handle_new_user, for the new identity NEWROW (NEW in the source): the cast
\* ::app_role raises on a text that names no label of the enum, and raising
\* aborts the transaction that inserts the identity; otherwise the function
\* inserts `row` into profiles
handle_new_user(NEWROW) ==
    [raised |-> ~CastOk(NEWROW.raw_user_meta_data.role),
     row |-> [id |-> NEWROW.id,
              email |-> NEWROW.email,
              full_name |-> COALESCE(NEWROW.raw_user_meta_data.full_name, ""),
              role |-> COALESCE(NEWROW.raw_user_meta_data.role, "user")]]

\* update_updated_at_column: BEFORE UPDATE on print_orders.  now() is the time
\* at which the transaction of the statement began.
update_updated_at_column(NEWROW, now) == [NEWROW EXCEPT !.updated_at = now]

-----------------------------------------------------------------------------
(* The bucket print-files.  A text is the sequence of its symbols: the name *)
(* of an object is the sequence of its path segments (the file names used   *)
(* here are one character long) and a URL is a base followed by a name.     *)

Buckets == {"print-files", "other"}

\* file names: a letter and the underscore
FileNames == {"a", "_"}

\* storage.foldername(name): the path segments of the name but the last
storage_foldername(name) == SubSeq(name, 1, Len(name) - 1)

\* (storage.foldername(name))[1], NULL when the name has no folder
FirstFolder(name) ==
    IF Len(storage_foldername(name)) >= 1 THEN storage_foldername(name)[1]
    ELSE NULL

\* supabase.storage.from('print-files').getPublicUrl(fileName)
getPublicUrl(fileName) == <<"https://host/object/public/print-files">> \o fileName

RECURSIVE LIKE(_, _)
\* text LIKE pattern: % matches any run of symbols, _ any one symbol
LIKE(text, pattern) ==
    IF pattern = <<>> THEN text = <<>>
    ELSE IF Head(pattern) = "%"
         THEN LIKE(text, Tail(pattern))
                \/ (text # <<>> /\ LIKE(Tail(text), pattern))
         ELSE /\ text # <<>>
              /\ Head(pattern) = "_" \/ Head(pattern) = Head(text)
              /\ LIKE(Tail(text), Tail(pattern))

\* the insert policy without the test of the first folder
objects_insert_any_folder(actor, obj) == obj.bucket_id = "print-files"

\* "Users can upload their own files"
objects_insert(actor, obj) ==
    obj.bucket_id = "print-files" /\ actor = FirstFolder(obj.name)

\* "Users can view their own files"
objects_select_own(actor, obj) ==
    obj.bucket_id = "print-files" /\ actor = FirstFolder(obj.name)

\* "Merchants can view files in their orders": the sub-select runs as the
\* requesting identity, over the orders and the merchants it may select
objects_select_sent(actor, obj) ==
    /\ obj.bucket_id = "print-files"
    /\ \E po \in {o \in print_orders : orders_select(actor, o)},
          m \in VisibleMerchants(actor) :
            /\ po.merchant_id = m.id
            /\ m.user_id = actor
            /\ LIKE(po.file_url, <<"%">> \o obj.name)

objects_select(actor, obj) ==
    objects_select_own(actor, obj) \/ objects_select_sent(actor, obj)

-----------------------------------------------------------------------------
Init ==
    /\ users = {}
    /\ profiles = {}
    /\ merchants = {}
    /\ print_orders = {}
    /\ objects = {}
    /\ clock = 0
    /\ orders = [s \in Sessions |-> {}]
    /\ last = [op |-> "none"]

\* time passes between requests
Tick ==
    /\ clock < MaxClock
    /\ clock' = clock + 1
    /\ UNCHANGED <<users, profiles, merchants, print_orders, objects, orders, last>>

-----------------------------------------------------------------------------
(* auth.users *)

\* INSERT INTO auth.users, with the AFTER INSERT trigger on_auth_user_created
\* in the same transaction: either both rows are stored or neither
CreateIdentity(id, email, full_name, role) ==
    LET NEWROW == [id |-> id, email |-> email,
                raw_user_meta_data |-> [full_name |-> full_name, role |-> role]]
        trigger == handle_new_user(NEWROW)
        row == trigger.row
        added == users \cup {[id |-> id, email |-> email]}
        ok  == ~trigger.raised /\ profiles_constraints(row, profiles, added)
    IN  /\ id \notin Ids(users)
        /\ users' = IF ok THEN added ELSE users
        /\ profiles' = IF ok THEN profiles \cup {row} ELSE profiles
        /\ last' = [op |-> "create_identity", new |-> NEWROW, ok |-> ok]
        /\ UNCHANGED <<merchants, print_orders, objects, clock, orders>>

\* merchants.user_id REFERENCES profiles ON DELETE CASCADE: the rows that go
\* with the profile
merchants_cascade(profile_id) == {m \in merchants : m.user_id = profile_id}

\* the cascade of print_orders with only user_id declared ON DELETE CASCADE
orders_cascade_customer_only(profile_id, gone) ==
    {o \in print_orders : o.user_id = profile_id}

\* print_orders.user_id and print_orders.merchant_id ON DELETE CASCADE: the
\* rows that go with the profile and with the merchants `gone`
orders_cascade(profile_id, gone) ==
    {o \in print_orders : o.user_id = profile_id \/ o.merchant_id \in Ids(gone)}

\* DELETE FROM auth.users: ON DELETE CASCADE through profiles, merchants and
\* print_orders
DeleteIdentity(id) ==
    LET gone == merchants_cascade(id)
    IN  /\ id \in Ids(users)
        /\ users' = {u \in users : u.id # id}
        /\ profiles' = {p \in profiles : p.id # id}
        /\ merchants' = merchants \ gone
        /\ print_orders' = print_orders \ orders_cascade(id, gone)
        /\ last' = [op |-> "delete_identity", id |-> id,
                    cascaded |-> {t \in {"merchants", "print_orders"} :
                                    IF t = "merchants" THEN gone # {}
                                    ELSE orders_cascade(id, gone) # {}},
                    ok |-> TRUE]
        /\ UNCHANGED <<objects, clock, orders>>

-----------------------------------------------------------------------------
(* profiles *)

\* SELECT * FROM profiles WHERE id = ...
SelectProfile(actor, id) ==
    /\ id \in Ids(profiles)
    /\ last' = [op |-> "select_profile", actor |-> actor,
                old |-> Row(profiles, id),
                ok |-> profiles_select(actor, Row(profiles, id))]
    /\ UNCHANGED <<users, profiles, merchants, print_orders, objects, clock, orders>>

\* INSERT INTO profiles: WITH CHECK of the insert policy, then the constraints
InsertProfile(actor, row) ==
    LET allowed == profiles_insert(actor, row)
        ok == allowed /\ profiles_constraints(row, profiles, users)
    IN  /\ profiles' = IF ok THEN profiles \cup {row} ELSE profiles
        /\ last' = [op |-> "insert_profile", actor |-> actor, new |-> row,
                    allowed |-> allowed, ok |-> ok]
        /\ UNCHANGED <<users, merchants, print_orders, objects, clock, orders>>

\* UPDATE profiles SET ... WHERE id = ...: USING on the stored row, the same
\* expression as WITH CHECK on the new row, then the constraints.  (ON UPDATE
\* of the key is NO ACTION: a key that merchants or orders reference stays.)
UpdateProfile(actor, id, patch) ==
    LET old == Row(profiles, id)
        new == Apply(old, patch)
        allowed == /\ profiles_select(actor, old) /\ profiles_update(actor, old)
                   /\ profiles_select(actor, new) /\ profiles_update(actor, new)
        kept == /\ new.id # old.id
                /\ old.id \in {m.user_id : m \in merchants}
                             \cup {o.user_id : o \in print_orders}
        ok == allowed /\ profiles_constraints(new, profiles \ {old}, users) /\ ~kept
    IN  /\ id \in Ids(profiles)
        /\ profiles' = IF ok THEN (profiles \ {old}) \cup {new} ELSE profiles
        /\ last' = [op |-> "update_profile", actor |-> actor, old |-> old,
                    new |-> new, allowed |-> allowed, ok |-> ok]
        /\ UNCHANGED <<users, merchants, print_orders, objects, clock, orders>>

\* DELETE FROM profiles WHERE id = ..., cascading to merchants and print_orders
DeleteProfile(actor, id) ==
    LET old == Row(profiles, id)
        ok == profiles_delete(actor, old)
        gone == merchants_cascade(id)
    IN  /\ id \in Ids(profiles)
        /\ profiles' = IF ok THEN profiles \ {old} ELSE profiles
        /\ merchants' = IF ok THEN merchants \ gone ELSE merchants
        /\ print_orders' =
               IF ok THEN print_orders \ orders_cascade(id, gone)
               ELSE print_orders
        /\ last' = [op |-> "delete_profile", actor |-> actor, old |-> old,
                    ok |-> ok]
        /\ UNCHANGED <<users, objects, clock, orders>>

-----------------------------------------------------------------------------
(* merchants *)

\* SELECT * FROM merchants WHERE id = ...
SelectMerchant(actor, id) ==
    /\ id \in Ids(merchants)
    /\ last' = [op |-> "select_merchant", actor |-> actor,
                old |-> Row(merchants, id),
                ok |-> merchants_select(actor, Row(merchants, id))]
    /\ UNCHANGED <<users, profiles, merchants, print_orders, objects, clock, orders>>

\* INSERT INTO merchants: id and is_active take their defaults unless supplied
InsertMerchant(actor, id, row) ==
    LET new == [id |-> id, user_id |-> row.user_id, is_active |-> row.is_active]
        allowed == merchants_insert(actor, new)
        ok == allowed /\ merchants_constraints(new, merchants)
    IN  /\ id \notin Ids(merchants)
        /\ merchants' = IF ok THEN merchants \cup {new} ELSE merchants
        /\ last' = [op |-> "insert_merchant", actor |-> actor, new |-> new,
                    allowed |-> allowed, ok |-> ok]
        /\ UNCHANGED <<users, profiles, print_orders, objects, clock, orders>>

\* UPDATE merchants SET ...: USING of the update policy on the stored row and,
\* as WITH CHECK, on the new row.  `reads` says that the statement reads
\* columns of the row (WHERE id = ..., RETURNING): then the SELECT policy is
\* applied to the stored row and to the new row as well.
UpdateMerchant(actor, id, patch, reads) ==
    LET old == Row(merchants, id)
        new == Apply(old, patch)
        allowed == /\ merchants_update(actor, old)
                   /\ merchants_update(actor, new)
                   /\ reads => (merchants_select(actor, old)
                                  /\ merchants_select(actor, new))
        ok == allowed /\ merchants_constraints(new, merchants \ {old})
    IN  /\ id \in Ids(merchants)
        /\ merchants' = IF ok THEN (merchants \ {old}) \cup {new} ELSE merchants
        /\ last' = [op |-> "update_merchant", actor |-> actor, old |-> old,
                    new |-> new, allowed |-> allowed, ok |-> ok]
        /\ UNCHANGED <<users, profiles, print_orders, objects, clock, orders>>

-----------------------------------------------------------------------------
(* print_orders *)

\* SELECT * FROM print_orders WHERE id = ...
SelectOrder(actor, id) ==
    /\ id \in Ids(print_orders)
    /\ last' = [op |-> "select_order", actor |-> actor,
                old |-> Row(print_orders, id),
                ok |-> orders_select(actor, Row(print_orders, id))]
    /\ UNCHANGED <<users, profiles, merchants, print_orders, objects, clock, orders>>

\* the column defaults of print_orders
orders_defaults(id, now) ==
    [id |-> id, user_id |-> NULL, merchant_id |-> NULL, file_url |-> NULL,
     copies |-> 1, status |-> "pending", updated_at |-> now]

\* INSERT INTO print_orders (cols) VALUES (...): the columns not supplied take
\* their defaults; WITH CHECK of the insert policy, then the constraints.
\* The statement runs at time `clock` in a transaction that began at `now`:
\* requests overlap, so one that began earlier may write after one that began
\* later.
InsertOrder(actor, id, cols, now) ==
    LET new == Apply(orders_defaults(id, now), cols)
        allowed == orders_insert(actor, new)
        ok == allowed /\ orders_constraints(new, print_orders)
    IN  /\ id \notin Ids(print_orders)
        /\ now \in 0..clock
        /\ print_orders' = IF ok THEN print_orders \cup {new} ELSE print_orders
        /\ last' = [op |-> "insert_order", actor |-> actor, new |-> new,
                    allowed |-> allowed, ok |-> ok]
        /\ UNCHANGED <<users, profiles, merchants, objects, clock, orders>>

\* UPDATE print_orders SET ... WHERE id = ...: USING of the update policies on
\* the stored row and, as WITH CHECK, on the new row (the SELECT policies are
\* the same expressions); the BEFORE UPDATE trigger; then the constraints
UpdateOrderStatement(actor, id, patch, now) ==
    LET old == Row(print_orders, id)
        new == update_updated_at_column(Apply(old, patch), now)
        allowed == orders_update(actor, old) /\ orders_update(actor, new)
        ok == allowed /\ orders_constraints(new, print_orders \ {old})
    IN  /\ id \in Ids(print_orders)
        /\ now \in 0..clock
        /\ print_orders' =
               IF ok THEN (print_orders \ {old}) \cup {new} ELSE print_orders
        /\ last' = [op |-> "update_order", actor |-> actor, old |-> old,
                    new |-> new, allowed |-> allowed, ok |-> ok]
        /\ UNCHANGED <<users, profiles, merchants, objects, clock>>

\* the statement issued by a client that holds no order list
UpdateOrder(actor, id, patch, now) ==
    /\ UpdateOrderStatement(actor, id, patch, now)
    /\ UNCHANGED orders

-----------------------------------------------------------------------------
(* MerchantDashboard: a session `s` of the identity DashboardUser, whose    *)
(* shop is the row `merchant` that useAuth() gave it                        *)

DashboardUser == "u2"

\* .from('print_orders').select(...).eq('merchant_id', merchant.id), run as
\* `actor` over the rows of `table`
FetchedOrders(table, actor, merchant) ==
    {o \in table : orders_select(actor, o) /\ o.merchant_id = merchant.id}

\* fetchOrders: the list of the session becomes what the select returns
fetchOrders(s, merchant) ==
    /\ merchant \in merchants
    /\ merchant.user_id = DashboardUser
    /\ orders' = [orders EXCEPT
                     ![s] = FetchedOrders(print_orders, DashboardUser, merchant)]
    /\ last' = [op |-> "fetch_orders", actor |-> DashboardUser, session |-> s,
                ok |-> TRUE]
    /\ UNCHANGED <<users, profiles, merchants, print_orders, objects, clock>>

\* OrderCard: the buttons shown for an order of the list
Buttons(order) ==
    IF order.status = "pending" THEN {"printing", "cancelled"}
    ELSE IF order.status = "printing" THEN {"completed"}
    ELSE {}

\* updateStatus(order.id, status), called from a button of the card of
\* `order` in the list of session s: .update({ status }).eq('id', orderId),
\* and fetchOrders() unless the update returned an error (an update that
\* touches no row returns none)
updateStatus(s, merchant, order, status, now) ==
    /\ merchant \in merchants
    /\ merchant.user_id = DashboardUser
    /\ order \in orders[s]
    /\ status \in Buttons(order)
    /\ UpdateOrderStatement(DashboardUser, order.id,
                            [c \in {"status"} |-> status], now)
    /\ orders' = IF last'.allowed /\ ~last'.ok THEN orders
                 ELSE [orders EXCEPT
                         ![s] = FetchedOrders(print_orders', DashboardUser,
                                              merchant)]

-----------------------------------------------------------------------------
(* storage.objects *)

\* an upload that stores the object before the insert policy is evaluated
Upload_before_check(actor, bucket, name) ==
    LET new == [bucket_id |-> bucket, name |-> name]
        allowed == objects_insert(actor, new)
    IN  /\ new \notin objects
        /\ objects' = objects \cup {new}
        /\ last' = [op |-> "upload", actor |-> actor, new |-> new,
                    allowed |-> allowed, ok |-> allowed]
        /\ UNCHANGED <<users, profiles, merchants, print_orders, clock, orders>>

\* supabase.storage.from(bucket).upload(name, file) of a file within the size
\* limit of the bucket, under a name that is not taken: INSERT INTO
\* storage.objects under the insert policy
Upload(actor, bucket, name) ==
    LET new == [bucket_id |-> bucket, name |-> name]
        allowed == objects_insert(actor, new)
    IN  /\ new \notin objects
        /\ objects' = IF allowed THEN objects \cup {new} ELSE objects
        /\ last' = [op |-> "upload", actor |-> actor, new |-> new,
                    allowed |-> allowed, ok |-> allowed]
        /\ UNCHANGED <<users, profiles, merchants, print_orders, clock, orders>>

\* a download of a stored object: SELECT on storage.objects
SelectObject(actor, obj) ==
    /\ obj \in objects
    /\ last' = [op |-> "select_object", actor |-> actor, old |-> obj,
                ok |-> objects_select(actor, obj)]
    /\ UNCHANGED <<users, profiles, merchants, print_orders, objects, clock, orders>>

-----------------------------------------------------------------------------
Actors == Ids(users)

\* the identities of the profile workflow: an owner and another identity
ProfileUserIds == {"u1", "u2"}

ProfileRows ==
    [id : ProfileUserIds, email : Emails, full_name : {""} \cup Names,
     role : RoleInputs]

ProfilePatches ==
    [{"id"} -> ProfileUserIds] \cup [{"email"} -> Emails]
        \cup [{"full_name"} -> {""} \cup Names] \cup [{"role"} -> RoleInputs]

NextProfiles ==
    \/ \E id \in ProfileUserIds, email \in Emails, full_name \in Names \cup {NULL},
          role \in RoleInputs \cup {NULL} :
            CreateIdentity(id, email, full_name, role)
    \/ \E id \in ProfileUserIds : DeleteIdentity(id)
    \/ \E actor \in Actors, id \in ProfileUserIds : SelectProfile(actor, id)
    \/ \E actor \in Actors, row \in ProfileRows : InsertProfile(actor, row)
    \/ \E actor \in Actors, id \in ProfileUserIds, patch \in ProfilePatches :
            UpdateProfile(actor, id, patch)
    \/ \E actor \in Actors, id \in ProfileUserIds : DeleteProfile(actor, id)

SpecProfiles == Init /\ [][NextProfiles]_vars

-----------------------------------------------------------------------------
(* The order workflow: sign-ups with the default metadata, shops, orders *)

\* the identities that open a shop; every identity may place orders
ShopOwners == {"u2", "u3"}

MerchantRows == [user_id : ShopOwners, is_active : BOOLEAN]

MerchantPatches == [{"is_active"} -> BOOLEAN] \cup [{"user_id"} -> UserIds]

\* what handleSubmit supplies, and the same with copies or status supplied;
\* the URL is the one of the file u1/a
OrderInserts ==
    {[user_id |-> u, merchant_id |-> m, file_url |-> getPublicUrl(<<"u1", "a">>)] :
         u \in UserIds, m \in MerchantIds}
        \cup {[user_id |-> u, merchant_id |-> m,
                file_url |-> getPublicUrl(<<"u1", "a">>), copies |-> c] :
                 u \in UserIds, m \in MerchantIds, c \in CopiesInputs}
        \cup {[user_id |-> u, merchant_id |-> m,
                file_url |-> getPublicUrl(<<"u1", "a">>), status |-> st] :
                 u \in UserIds, m \in MerchantIds, st \in {"completed", "shipped"}}

OrderPatches ==
    [{"status"} -> StatusInputs] \cup [{"copies"} -> CopiesInputs]
        \cup [{"user_id"} -> UserIds] \cup [{"merchant_id"} -> MerchantIds]
        \cup [{"updated_at"} -> 0..MaxClock]

Next ==
    \/ \E id \in UserIds : CreateIdentity(id, "a@x.edu", NULL, NULL)
    \/ \E id \in UserIds : DeleteIdentity(id)
    \/ \E actor \in Actors, id \in MerchantIds, row \in MerchantRows :
            InsertMerchant(actor, id, row)
    \/ \E actor \in Actors, id \in MerchantIds, patch \in MerchantPatches,
          reads \in BOOLEAN :
            UpdateMerchant(actor, id, patch, reads)
    \/ \E actor \in Actors, id \in MerchantIds : SelectMerchant(actor, id)
    \/ \E actor \in Actors, id \in OrderIds : SelectOrder(actor, id)
    \/ \E actor \in Actors, id \in OrderIds, cols \in OrderInserts,
          now \in 0..clock :
            InsertOrder(actor, id, cols, now)
    \/ \E actor \in Actors, id \in OrderIds, patch \in OrderPatches,
          now \in 0..clock :
            UpdateOrder(actor, id, patch, now)

Spec == Init /\ [][Next]_vars

-----------------------------------------------------------------------------
(* The file workflow: a customer, a shop owner, uploads, orders, downloads *)

FileUserIds == {"u1", "u2"}

ObjectNames == {<<"u1", "a">>, <<"u1", "_">>, <<"u2", "a">>, <<"a">>}

\* handleSubmit: the URL of an uploaded file goes into the order
FileOrderInserts ==
    {[user_id |-> u, merchant_id |-> "m1", file_url |-> getPublicUrl(n)] :
         u \in FileUserIds, n \in {<<"u1", "a">>, <<"u2", "a">>}}

NextFiles ==
    \/ \E id \in FileUserIds : CreateIdentity(id, "a@x.edu", NULL, NULL)
    \/ \E actor \in Actors :
            InsertMerchant(actor, "m1", [user_id |-> "u2", is_active |-> TRUE])
    \/ \E actor \in Actors, cols \in FileOrderInserts :
            InsertOrder(actor, "o1", cols, clock)
    \/ \E actor \in Actors, bucket \in Buckets, name \in ObjectNames :
            Upload(actor, bucket, name)
    \/ \E actor \in Actors, obj \in objects : SelectObject(actor, obj)

SpecFiles == Init /\ [][NextFiles]_vars

-----------------------------------------------------------------------------
(* Orders over time: requests whose transactions overlap *)

ClockOrderPatches ==
    [{"status"} -> StatusValues] \cup [{"updated_at"} -> 0..MaxClock]

NextClock ==
    \/ Tick
    \/ \E id \in FileUserIds : CreateIdentity(id, "a@x.edu", NULL, NULL)
    \/ \E actor \in Actors :
            InsertMerchant(actor, "m1", [user_id |-> "u2", is_active |-> TRUE])
    \/ \E actor \in Actors, now \in 0..clock :
            InsertOrder(actor, "o1",
                        [user_id |-> "u1", merchant_id |-> "m1",
                         file_url |-> getPublicUrl(<<"u1", "a">>)], now)
    \/ \E actor \in Actors, patch \in ClockOrderPatches, now \in 0..clock :
            UpdateOrder(actor, "o1", patch, now)

SpecClock == Init /\ [][NextClock]_vars

-----------------------------------------------------------------------------
(* Every kind of write on the three tables and on the bucket, by two        *)
(* identities                                                               *)

RequestProfileRows ==
    [id : FileUserIds, email : {"a@x.edu"}, full_name : {""},
     role : {"user", "admin"}]

RequestProfilePatches ==
    [{"role"} -> {"merchant", "admin"}] \cup [{"id"} -> FileUserIds]

RequestMerchantRows == [user_id : FileUserIds, is_active : {TRUE}]

RequestMerchantPatches ==
    [{"user_id"} -> FileUserIds] \cup [{"is_active"} -> {FALSE}]

RequestOrderInserts ==
    {[user_id |-> u, merchant_id |-> m,
      file_url |-> getPublicUrl(<<"u1", "a">>)] :
         u \in FileUserIds, m \in MerchantIds}
        \cup {[user_id |-> u, merchant_id |-> "m1",
               file_url |-> getPublicUrl(<<"u1", "a">>), status |-> "shipped"] :
                 u \in FileUserIds}

RequestOrderPatches ==
    [{"status"} -> {"printing", "shipped"}] \cup [{"merchant_id"} -> MerchantIds]

NextRequests ==
    \/ \E id \in FileUserIds : CreateIdentity(id, "a@x.edu", NULL, NULL)
    \/ \E actor \in Actors, row \in RequestProfileRows : InsertProfile(actor, row)
    \/ \E actor \in Actors, id \in FileUserIds, patch \in RequestProfilePatches :
            UpdateProfile(actor, id, patch)
    \/ \E actor \in Actors, id \in MerchantIds, row \in RequestMerchantRows :
            InsertMerchant(actor, id, row)
    \/ \E actor \in Actors, id \in MerchantIds, patch \in RequestMerchantPatches :
            UpdateMerchant(actor, id, patch, TRUE)
    \/ \E actor \in Actors, cols \in RequestOrderInserts :
            InsertOrder(actor, "o1", cols, clock)
    \/ \E actor \in Actors, patch \in RequestOrderPatches :
            UpdateOrder(actor, "o1", patch, clock)
    \/ \E actor \in Actors, bucket \in Buckets :
            Upload(actor, bucket, <<"u1", "a">>)

SpecRequests == Init /\ [][NextRequests]_vars

-----------------------------------------------------------------------------
(* The merchant dashboard: a customer, the shop owner in two sessions *)

NextDashboard ==
    \/ \E id \in FileUserIds : CreateIdentity(id, "a@x.edu", NULL, NULL)
    \/ \E actor \in Actors :
            InsertMerchant(actor, "m1", [user_id |-> DashboardUser,
                                         is_active |-> TRUE])
    \/ \E actor \in Actors :
            InsertOrder(actor, "o1",
                        [user_id |-> "u1", merchant_id |-> "m1",
                         file_url |-> getPublicUrl(<<"u1", "a">>)], clock)
    \/ \E st \in {"cancelled"} :
            UpdateOrder("u1", "o1", [c \in {"status"} |-> st], clock)
    \/ \E s \in Sessions, merchant \in merchants : fetchOrders(s, merchant)
    \/ \E s \in Sessions, merchant \in merchants :
          \E order \in orders[s], status \in StatusValues :
            updateStatus(s, merchant, order, status, clock)

SpecDashboard == Init /\ [][NextDashboard]_vars

-----------------------------------------------------------------------------
(* Properties of print_orders, checked under Spec *)

\* the actor is the owner of the merchant the order row references
OwnsMerchantOf(actor, row) ==
    \E m \in merchants : m.id = row.merchant_id /\ m.user_id = actor

IsParty(actor, row) == actor = row.user_id \/ OwnsMerchantOf(actor, row)

\* C1: a read or an update of an order succeeds if and only if the actor is
\* the order's customer or the owner of the merchant the order references,
\* whether or not that merchant is active.  (The updates are those that keep
\* the order's two keys and store a valid status.)
OrderAccessIffParty ==
    /\ last.op = "select_order" => (last.ok <=> IsParty(last.actor, last.old))
    /\ (/\ last.op = "update_order"
        /\ last.new.user_id = last.old.user_id
        /\ last.new.merchant_id = last.old.merchant_id
        /\ last.new.status \in StatusValues)
          => (last.ok <=> IsParty(last.actor, last.old))

\* the intended lifecycle of a print order
LegalTransitions ==
    {<<"pending", "printing">>, <<"printing", "completed">>,
     <<"pending", "cancelled">>}

\* C6: an update that succeeds changes the status only along
\* pending -> printing, printing -> completed or pending -> cancelled: a
\* completed or cancelled order keeps its status, and a printing order goes
\* neither back to pending nor to cancelled.
StatusLifecycle ==
    (last.op = "update_order" /\ last.ok /\ last.new.status # last.old.status)
        => <<last.old.status, last.new.status>> \in LegalTransitions

\* C7: an insert of an order with copies < 1 is rejected, and every stored
\* order has copies >= 1.
CopiesAtLeastOne ==
    /\ (last.op = "insert_order" /\ last.new.copies < 1) => ~last.ok
    /\ \A o \in print_orders : o.copies >= 1

\* C8: every stored order has one of the four statuses; an insert or an
\* update that supplies another status is rejected and leaves the orders as
\* they were.
StatusInDomain ==
    /\ \A o \in print_orders : o.status \in StatusValues
    /\ (last.op = "insert_order" /\ last.new.status \notin StatusValues) =>
          /\ ~last.ok
          /\ last.new.id \notin Ids(print_orders)
    /\ (last.op = "update_order" /\ last.new.status \notin StatusValues) =>
          /\ ~last.ok
          /\ last.old \in print_orders

StatusInDomainWitness ==
    /\ last.op = "update_order"
    /\ last.allowed
    /\ last.new.status = "shipped"
    /\ ~last.ok
    /\ last.old \in print_orders

\* C9: every order that an actor succeeds in creating has status pending when
\* it is created, whatever columns the insert supplied.
CreatedPending ==
    (last.op = "insert_order" /\ last.ok) => last.new.status = "pending"

\* C10: an insert of an order is allowed if and only if the actor's key is the
\* new row's customer key; no order is stored on behalf of another profile.
InsertOrderOwnOnly ==
    last.op = "insert_order" =>
        /\ last.allowed <=> last.actor = last.new.user_id
        /\ last.ok => last.actor = last.new.user_id
        /\ last.actor # last.new.user_id => last.new.id \notin Ids(print_orders)

InsertOrderOwnOnlyWitness ==
    /\ last.op = "insert_order"
    /\ last.actor # last.new.user_id
    /\ last.new.user_id \in Ids(profiles)
    /\ last.new.merchant_id \in Ids(merchants)
    /\ last.new.status \in StatusValues
    /\ ~last.ok

-----------------------------------------------------------------------------
(* Properties of merchants and of the references, checked under Spec *)

\* C11: a read of a merchant whose is_active is false by an actor other than
\* its owner is denied, and a read of a merchant whose is_active is true is
\* allowed for every actor, owner or not.
ActiveMerchantsPublic ==
    last.op = "select_merchant" =>
        /\ (~last.old.is_active /\ last.actor # last.old.user_id) => ~last.ok
        /\ last.old.is_active => last.ok

ActiveMerchantsPublicWitness ==
    /\ last.op = "select_merchant"
    /\ ~last.old.is_active
    /\ last.actor # last.old.user_id
    /\ ~last.ok

\* C15: no two merchant rows have the same owner, and an insert of a merchant
\* whose owner already owns another merchant fails and stores nothing.
OneMerchantPerProfile ==
    /\ \A m1, m2 \in merchants : m1.user_id = m2.user_id => m1 = m2
    /\ (last.op = "insert_merchant"
          /\ \E m \in merchants :
                m.user_id = last.new.user_id /\ m.id # last.new.id) =>
       (~last.ok /\ last.new.id \notin Ids(merchants))

OneMerchantPerProfileWitness ==
    /\ last.op = "insert_merchant"
    /\ last.allowed
    /\ ~last.ok
    /\ \E m \in merchants : m.user_id = last.new.user_id /\ m.id # last.new.id

\* C16: an insert of a merchant is allowed only for the actor whose key is the
\* new row's owner key, an update succeeds only for the actor whose key is the
\* stored row's owner key, and no update that succeeds changes the owner key.
MerchantOwnerFixed ==
    /\ last.op = "insert_merchant" =>
          /\ last.allowed <=> last.actor = last.new.user_id
          /\ last.ok => last.actor = last.new.user_id
    /\ last.op = "update_merchant" =>
          /\ last.ok => /\ last.actor = last.old.user_id
                        /\ last.new.user_id = last.old.user_id
          /\ ~last.ok => last.old \in merchants

MerchantOwnerFixedWitness ==
    /\ last.op = "update_merchant"
    /\ last.actor = last.old.user_id
    /\ last.new.user_id # last.old.user_id
    /\ last.new.user_id \in Ids(profiles)
    /\ ~last.ok

\* C17: every order references a stored profile and a stored merchant, every
\* merchant a stored profile and every profile a stored identity; an insert
\* that references a missing parent fails; deleting an identity removes, in the
\* same step, its profile, its merchant and every order that references either.
ReferencesExist ==
    /\ \A o \in print_orders :
          o.user_id \in Ids(profiles) /\ o.merchant_id \in Ids(merchants)
    /\ \A m \in merchants : m.user_id \in Ids(profiles)
    /\ \A p \in profiles : p.id \in Ids(users)
    /\ (last.op = "insert_order"
          /\ (last.new.user_id \notin Ids(profiles)
                \/ last.new.merchant_id \notin Ids(merchants))) => ~last.ok
    /\ (last.op = "insert_merchant" /\ last.new.user_id \notin Ids(profiles)) =>
          ~last.ok
    /\ last.op = "delete_identity" =>
          /\ last.id \notin Ids(users) \cup Ids(profiles)
          /\ \A m \in merchants : m.user_id # last.id
          /\ \A o \in print_orders : o.user_id # last.id

ReferencesExistWitness ==
    /\ last.op = "delete_identity"
    /\ last.cascaded = {"merchants", "print_orders"}
    /\ users # {}

\* C18: when one of the customer and the owner of the order's merchant has
\* just updated an order and the other one then writes a valid status to it
\* (keeping the order's two keys), the second update is applied to the row the
\* first one stored, it succeeds, and the order then holds what it wrote.
LastWriteWins ==
    [][(/\ last.op = "update_order"
        /\ last.ok
        /\ last'.op = "update_order"
        /\ last'.actor # last.actor
        /\ \/ last.actor = last'.old.user_id
              /\ OwnsMerchantOf(last'.actor, last'.old)
           \/ last'.actor = last'.old.user_id
              /\ OwnsMerchantOf(last.actor, last'.old)
        /\ last'.new.status \in StatusValues
        /\ last'.new.user_id = last'.old.user_id
        /\ last'.new.merchant_id = last'.old.merchant_id)
       => (/\ last'.ok
           /\ last'.old = last.new
           /\ last'.new \in print_orders')]_vars

-----------------------------------------------------------------------------
(* Properties of the bucket, checked under SpecFiles *)

\* C12: an upload into print-files under a name whose first path segment is
\* not the actor's key is denied and stores nothing; under a name whose first
\* path segment is the actor's key it is accepted; and an object stored under
\* the actor's key is readable by that actor.
UploadOwnFolderOnly ==
    /\ last.op = "upload" =>
          /\ (last.new.bucket_id = "print-files"
                /\ last.new.name[1] # last.actor) =>
             (~last.ok /\ last.new \notin objects)
          /\ (last.new.bucket_id = "print-files"
                /\ Len(last.new.name) >= 2
                /\ last.new.name[1] = last.actor) =>
             (last.ok /\ last.new \in objects)
    /\ (last.op = "select_object"
          /\ last.old.bucket_id = "print-files"
          /\ last.old.name[1] = last.actor) => last.ok

UploadOwnFolderOnlyWitness ==
    /\ last.op = "select_object"
    /\ last.old.name[1] = last.actor
    /\ last.ok
    /\ \E o \in objects : o.name[1] # last.actor

\* the text ends with the name, symbol for symbol
References(file_url, name) ==
    /\ Len(file_url) >= Len(name)
    /\ SubSeq(file_url, Len(file_url) - Len(name) + 1, Len(file_url)) = name

\* C13: an actor whose key is not the first path segment of an object reads
\* the object only if some order references a merchant owned by the actor and
\* has a file_url that ends with the object's name.
ReadByMerchantOfOrderOnly ==
    (last.op = "select_object" /\ last.ok /\ last.old.name[1] # last.actor) =>
        \E po \in print_orders :
            /\ OwnsMerchantOf(last.actor, po)
            /\ References(po.file_url, last.old.name)

-----------------------------------------------------------------------------
(* Properties of updated_at, checked under SpecClock *)

\* C14: every update of an order that succeeds leaves updated_at strictly
\* greater than it was before the update, whatever the writer supplied.
UpdatedAtAdvances ==
    (last.op = "update_order" /\ last.ok) =>
        last.new.updated_at > last.old.updated_at

-----------------------------------------------------------------------------
(* Properties of failed requests, checked under SpecRequests *)

Writes ==
    {"insert_profile", "update_profile", "insert_merchant", "update_merchant",
     "insert_order", "update_order", "upload"}

\* C19: an insert or an update on profiles, merchants or print_orders, or an
\* upload, that is denied by a policy or violates a constraint leaves the
\* identities, the three tables and the bucket as they were.
FailedWriteChangesNothing ==
    [][(last'.op \in Writes /\ ~last'.ok) =>
          UNCHANGED <<users, profiles, merchants, print_orders, objects>>]_vars

FailedWriteChangesNothingWitness ==
    /\ last.op = "update_order"
    /\ last.allowed
    /\ ~last.ok
    /\ last.old \in print_orders
    /\ objects # {}

-----------------------------------------------------------------------------
(* Properties of profiles and identities, checked under SpecProfiles *)

\* C2: a read, an update or an insert of a profile row by an actor whose key
\* differs from the row's key is denied and changes nothing; by the actor whose
\* key is the row's key (before and after the statement) it is allowed.
ProfileOwnerOnly ==
    /\ last.op = "select_profile" => (last.ok <=> last.actor = last.old.id)
    /\ last.op = "insert_profile" =>
          /\ last.allowed <=> last.actor = last.new.id
          /\ last.ok => last.allowed
    /\ last.op = "update_profile" =>
          /\ last.allowed <=>
                (last.actor = last.old.id /\ last.actor = last.new.id)
          /\ last.ok => last.allowed
          /\ ~last.ok => last.old \in profiles

ProfileOwnerOnlyWitness ==
    /\ last.op = "update_profile"
    /\ last.actor # last.old.id
    /\ last.new.role \in app_role
    /\ ~last.ok

\* C3: creating an identity with an absent or a valid role stores, in the same
\* step, exactly one profile with the identity's key and email, the supplied
\* full name or '', and the supplied role or 'user'.
IdentityGetsProfile ==
    (last.op = "create_identity"
        /\ last.new.raw_user_meta_data.role \in app_role \cup {NULL}) =>
    LET n == last.new
        meta == n.raw_user_meta_data
        mine == {p \in profiles : p.id = n.id}
    IN  /\ last.ok
        /\ [id |-> n.id, email |-> n.email] \in users
        /\ Cardinality(mine) = 1
        /\ \A p \in mine :
              /\ p.email = n.email
              /\ p.full_name = (IF meta.full_name = NULL THEN "" ELSE meta.full_name)
              /\ p.role = (IF meta.role = NULL THEN "user" ELSE meta.role)

IdentityGetsProfileWitness ==
    /\ last.op = "create_identity"
    /\ last.new.raw_user_meta_data.role = "merchant"
    /\ last.new.raw_user_meta_data.full_name = NULL
    /\ last.ok

\* C4: creating an identity whose metadata carries a role that is neither
\* 'user' nor 'merchant' fails as a whole: neither the identity nor a profile
\* for it is stored.
InvalidRoleFailsSignUp ==
    (last.op = "create_identity"
        /\ last.new.raw_user_meta_data.role \notin app_role \cup {NULL}) =>
    /\ ~last.ok
    /\ last.new.id \notin Ids(users)
    /\ last.new.id \notin Ids(profiles)

InvalidRoleFailsSignUpWitness ==
    /\ last.op = "create_identity"
    /\ last.new.raw_user_meta_data.role = "admin"
    /\ ~last.ok
    /\ users # {}

\* C5: every identity has exactly one profile with its key, no profile exists
\* without its identity, and no statement changes the key of a stored profile.
OneProfilePerIdentity ==
    /\ Ids(profiles) = Ids(users)
    /\ \A u \in users : Cardinality({p \in profiles : p.id = u.id}) = 1
    /\ (last.op = "update_profile" /\ last.ok) => last.new.id = last.old.id

OneProfilePerIdentityWitness ==
    /\ last.op = "update_profile"
    /\ last.ok
    /\ last.new # last.old
    /\ Cardinality(users) = Cardinality(ProfileUserIds)

\* C20: an update of a profile that succeeds is made by the profile's owner and
\* changes neither the role nor the key of the profile, and no actor succeeds
\* in deleting a profile row.
ProfileEmailAndNameOnly ==
    /\ (last.op = "update_profile" /\ last.ok) =>
          /\ last.actor = last.old.id
          /\ last.new.id = last.old.id
          /\ last.new.role = last.old.role
    /\ last.op = "delete_profile" => ~last.ok

-----------------------------------------------------------------------------
(* Properties of the merchant dashboard, checked under SpecDashboard *)

\* C22: every update of a status that a merchant dashboard issues and that
\* succeeds is a legal transition from the status stored when it is applied:
\* printing and cancelled are written only over pending, completed only over
\* printing, in every interleaving of the sessions and the customer.
DashboardWritesLegal ==
    (last.op = "update_order" /\ last.ok /\ last.actor = DashboardUser) =>
        <<last.old.status, last.new.status>> \in LegalTransitions

-----------------------------------------------------------------------------
(* Confidentiality of the files, checked under SpecFiles *)

\* C21: an actor whose key is not the first path segment of an object reads
\* the object only if an order of the identity named by that segment
\* references a merchant owned by the actor and has a file_url that the
\* policy matches with the object's name; an order that the actor placed
\* with the own merchant gives no access to another identity's object.
ReadOnlyByOrderOfUploader ==
    (last.op = "select_object" /\ last.ok /\ last.old.name[1] # last.actor) =>
        \E po \in print_orders :
            /\ po.user_id = last.old.name[1]
            /\ OwnsMerchantOf(last.actor, po)
            /\ LIKE(po.file_url, <<"%">> \o last.old.name)

-----------------------------------------------------------------------------
(* The keys of an order, checked under Spec *)

\* C23: no update of an order that succeeds changes the order's customer key
\* or its merchant key.
OrderKeysFixed ==
    (last.op = "update_order" /\ last.ok) =>
        /\ last.new.user_id = last.old.user_id
        /\ last.new.merchant_id = last.old.merchant_id

====
